---- MODULE Spec2Model ----
(***************************************************************************)
(* Internal-linking agent: the link planner in its two generations         *)
(* (internal_link_planner.py, internal_link_planner_v2.py) and the cluster *)
(* selector (semantic_topics_v2.py), as state machines.                    *)
(*                                                                         *)
(* Strings.  A URL or a title is an atomic string of a small pool; the     *)
(* string primitives the code applies to it (str.lower, the substring test *)
(* "k in s") are tabulated on that pool.  A page content is a base sequence *)
(* of whitespace-separated words repeated `times` times, each word         *)
(* followed by one space (the "Topic content. " * 50 idiom of              *)
(* test_internal_linking.py); its words, sentences and tokens are computed *)
(* from the expanded word sequence.                                        *)
(***************************************************************************)
EXTENDS Integers, Sequences, FiniteSets, TLC

\* Largest number of pages (and of labels) handed to a planner or a clusterer.
MaxPages == 4

\* Largest min_clusters / max_clusters a ClusteringConfig is built with; above
\* MaxPages, so that max_clusters can exceed the number of pages as the
\* default does.
MaxClusters == 5

(***************************************************************************)
(* config.py / internal_link_planner.py: configuration                     *)
(***************************************************************************)
\* LinkingConfig.utility_keywords (v2) and UTILITY_KEYWORDS (v1)
utility_keywords ==
    {"privacy", "terms", "cookie", "disclaimer", "contact", "login",
     "signup", "404", "about", "legal", "policy", "sitemap"}
UTILITY_KEYWORDS ==
    {"privacy", "terms", "cookie", "disclaimer", "contact", "login", "signup"}
STOPWORDS ==
    {"the", "and", "to", "of", "that", "is", "with", "for", "in",
     "on", "by", "as", "at", "from", "this", "it", "are", "be"}
min_pillar_words == 300
MIN_PILLAR_WORDS == 300
min_anchor_words == 2
max_anchor_words == 5
MIN_ANCHOR_WORDS == 2
MAX_ANCHOR_WORDS == 5
min_anchor_overlap == 2

(***************************************************************************)
(* String primitives on the pool                                           *)
(***************************************************************************)
\* str.lower()
Lower(s) ==
    CASE s = "/Privacy-Policy" -> "/privacy-policy"
      [] s = "About Docker"    -> "about docker"
      [] s = "Docker Guide"    -> "docker guide"
      [] s = "The"             -> "the"
      [] s = "Docker"          -> "docker"
      [] s = "Networking"      -> "networking"
      [] OTHER                 -> s

\* The keywords k for which "k in s" is true (case-sensitive substring test).
KeywordsIn(s) ==
    CASE s = "/privacy-policy" -> {"privacy", "policy"}
      [] s = "about docker"    -> {"about"}
      [] OTHER                 -> {}

\* k in s
Contains(s, k) == k \in KeywordsIn(s)

\* len(w) of a word, in characters
WordLen(w) ==
    CASE w = "."                                         -> 1
      [] w \in {"the", "The", "and", "for"}              -> 3
      [] w = "with"                                      -> 4
      [] w = "guide"                                     -> 5
      [] w \in {"docker", "Docker", "policy"}            -> 6
      [] w \in {"privacy", "policy."}                    -> 7
      [] w = "explains"                                  -> 8
      [] w = "explains."                                 -> 9
      [] w \in {"networking", "Networking", "containers"} -> 10
      [] w = "containers."                               -> 11
      [] w = "fundamentals"                              -> 12
      [] w = "fundamentals."                             -> 13
      [] w = "containerization"                          -> 16

\* The word ends with sentence punctuation ([.!?]).
EndsSentence(w) ==
    w \in {"containers.", "fundamentals.", "explains.", "policy."}

\* The word without its trailing punctuation.
Stem(w) ==
    CASE w = "containers."   -> "containers"
      [] w = "fundamentals." -> "fundamentals"
      [] w = "explains."     -> "explains"
      [] w = "policy."       -> "policy"
      [] OTHER               -> w

\* nltk.pos_tag on a token (a lexical tagger on the vocabulary)
Tag(tok) ==
    CASE tok \in {"docker", "networking", "guide", "containerization",
                  "privacy", "policy"}                   -> "NN"
      [] tok \in {"containers", "fundamentals"}          -> "NNS"
      [] tok = "the"                                     -> "DT"
      [] tok = "and"                                     -> "CC"
      [] tok \in {"for", "with"}                         -> "IN"
      [] tok = "explains"                                -> "VBZ"
      [] OTHER                                           -> "."

\* The whole word matches [A-Z][a-z]+ (so whitespace may follow the match).
CapPure(w) == w \in {"The", "Docker", "Networking"}
\* The word starts with a match of [A-Z][a-z]+ that ends at a word boundary.
Cap(w) == CapPure(w)

\* The word is matched by \b[a-zA-Z]{3,}\b once lowered (its letters).
Alpha3(w) == WordLen(Stem(w)) >= 3

(***************************************************************************)
(* Page contents                                                           *)
(***************************************************************************)
cLong  == [base |-> <<"the", "docker", "networking", "guide", "explains",
                      "containers.">>, times |-> 50]
cWide  == [base |-> <<"docker", "networking", "containerization", "fundamentals.">>,
           times |-> 74]
cSrc   == [base |-> <<"The", "Docker", "Networking", "explains.">>, times |-> 1]
cPolicy == [base |-> <<"docker", "privacy", "networking", "policy.">>, times |-> 20]
cEmpty == [base |-> <<>>, times |-> 0]

\* Single sentences handed to the anchor engines as source text
sTwice  == [base |-> <<"docker", "networking", "explains", "docker", "networking",
                       "guide">>, times |-> 1]
sSix    == [base |-> <<"docker", "networking", "guide", "containerization",
                       "containers", "fundamentals.">>, times |-> 1]
sCaps   == [base |-> <<"The", "Docker", "Networking", "Docker", "Networking",
                       "Docker">>, times |-> 1]
sOne    == [base |-> <<"docker", "explains.">>, times |-> 1]
sStop   == [base |-> <<"the", "docker", "explains", "networking", "guide">>,
            times |-> 1]
sAnd    == [base |-> <<"docker", "networking", "explains", "and", "the", "for",
                       "with", "docker", "guide">>, times |-> 1]
AnchorSources == {cSrc, sTwice, sSix, sCaps, sOne, sStop, sAnd}

\* Texts handed to the anchor engines as target content
tGuide   == [base |-> <<"the", "docker", "guide">>, times |-> 1]
tManual  == [base |-> <<"the", "docker", "networking", "guide", "explains",
                        "containers.">>, times |-> 1]
tPrivacy == [base |-> <<"privacy", "policy">>, times |-> 1]
tAnd     == [base |-> <<"and", "the", "for", "with", "docker", "networking">>,
             times |-> 1]
AnchorTargets == {tGuide, tManual, tPrivacy, tAnd, cEmpty}

ContentPool == {cLong, cWide, cSrc, cPolicy, cEmpty} \cup AnchorSources \cup AnchorTargets

\* A sequence repeated n times.
Repeat(s, n) == [i \in 1..(Len(s) * n) |-> s[((i - 1) % Len(s)) + 1]]

\* content.split(): the expanded word sequence
Words(c) == Repeat(c.base, c.times)

\* len(content.split())
WordCount(c) == Len(c.base) * c.times

RECURSIVE SumLen(_)
SumLen(ws) == IF ws = <<>> THEN 0 ELSE WordLen(Head(ws)) + SumLen(Tail(ws))

\* len(content): every word of the text is followed by one space
CharLen(c) == (SumLen(c.base) + Len(c.base)) * c.times

\* len(phrase) of the phrase " ".join(ws)
PhraseLen(ws) == IF ws = <<>> THEN 0 ELSE SumLen(ws) + Len(ws) - 1

\* [f(x) for x in s]
LowerAll(ws) == [i \in 1..Len(ws) |-> Lower(ws[i])]

(***************************************************************************)
(* config.py: ClusteringConfig                                             *)
(***************************************************************************)
kmeans_seed == 42
\* 0.2, in hundredths
min_silhouette_score == 20

\* ClusteringConfig(min_clusters=lo, max_clusters=hi, min_silhouette_score=floor):
\* the attributes of the instance are the fields of the dataclass
ClusteringConfig(lo, hi, floor) ==
    [min_clusters         |-> lo,
     max_clusters         |-> hi,
     min_silhouette_score |-> floor,
     kmeans_init          |-> "k-means++",
     kmeans_seed          |-> kmeans_seed,
     model_name           |-> "sentence-transformers/all-MiniLM-L6-v2"]

\* The instances __post_init__ accepts, within MaxClusters
ClusteringConfigs ==
    { c \in { ClusteringConfig(lo, hi, floor) :
                lo \in 2..MaxClusters, hi \in 2..MaxClusters,
                floor \in {0, min_silhouette_score} } :
        c.min_clusters <= c.max_clusters }

\* hasattr(obj, name)
HasAttr(obj, name) == name \in DOMAIN obj

\* Silhouette scores, in hundredths of [-1, 1]
Scores == {-100, 10, 50}

\* What KMeans(n_clusters=k, ...).fit_predict(embeddings) followed by
\* silhouette_score(embeddings, labels) does for one k: it raises (a
\* degenerate partition) or yields a score; the labels it yields are taken to
\* be the round-robin partition of the pages into k clusters.
Fits ==
    {[raised |-> "ValueError", score |-> 0]}
        \cup {[raised |-> "", score |-> sc] : sc \in Scores}

fit_predict(n, k) == [i \in 1..n |-> (i - 1) % k]

(***************************************************************************)
(* Pages                                                                   *)
(***************************************************************************)
\* Variant: only an empty list is refused
NoPages(ps) == Len(ps) < 1

\* cluster_pages: if not pages or len(pages) < 2
\* plan_semantic_links (v2): if not pages or len(pages) < 2
TooFewPages(ps) == Len(ps) < 2

PagePool ==
    { [url |-> "/docker-guide",   title |-> "Docker Guide", content |-> cLong],
      [url |-> "/compose",        title |-> "Docker Guide", content |-> cSrc],
      [url |-> "/Privacy-Policy", title |-> "Docker Guide", content |-> cPolicy],
      [url |-> "/kubernetes",     title |-> "Docker Guide", content |-> cWide],
      [url |-> "/blank",          title |-> "Docker Guide", content |-> cEmpty],
      [url |-> "/networking",     title |-> "About Docker", content |-> cSrc] }

\* The pages of one site, in crawl order
Site ==
    << [url |-> "/docker-guide",   title |-> "Docker Guide", content |-> cLong],
       [url |-> "/compose",        title |-> "Docker Guide", content |-> cSrc],
       [url |-> "/kubernetes",     title |-> "Docker Guide", content |-> cWide],
       [url |-> "/Privacy-Policy", title |-> "Docker Guide", content |-> cPolicy],
       [url |-> "/blank",          title |-> "Docker Guide", content |-> cEmpty],
       [url |-> "/networking",     title |-> "About Docker", content |-> cSrc] >>

\* KMeans labels
Labels == {0, 1}

(***************************************************************************)
(* Utility pages                                                           *)
(***************************************************************************)
\* Variant: the url and title are searched as written, without .lower()
is_utility_page_as_written(url, title) ==
    \E keyword \in utility_keywords :
        \/ Contains(url, Lower(keyword))
        \/ Contains(title, Lower(keyword))

\* v2: combined = (url + " " + title).lower(); no keyword holds a space, so a
\* keyword occurs in combined iff it occurs in one of the two parts.
is_utility_page_v2(url, title) ==
    \E keyword \in utility_keywords :
        \/ Contains(Lower(url), Lower(keyword))
        \/ Contains(Lower(title), Lower(keyword))

\* v1: url = url.lower(); any(k in url for k in UTILITY_KEYWORDS)
is_utility_page(url) ==
    \E k \in UTILITY_KEYWORDS : Contains(Lower(url), k)

(***************************************************************************)
(* Tokens, tags and target words                                           *)
(***************************************************************************)
NoAnchor == <<>>

\* F(x), with x evaluated once.
ByValue(F(_), x) == CHOOSE r \in {F(v) : v \in {x}} : TRUE

Indices(s) == [i \in 1..Len(s) |-> i]

\* nltk.word_tokenize on lowered words: the sentence-final period is a token
RECURSIVE word_tokenize(_)
word_tokenize(ws) ==
    IF ws = <<>> THEN <<>>
    ELSE (IF EndsSentence(Head(ws)) THEN <<Stem(Head(ws)), ".">> ELSE <<Head(ws)>>)
         \o word_tokenize(Tail(ws))

\* word_tokenize(text.lower()) of a whole content: the text is periodic
ContentTokens(c) == Repeat(word_tokenize(LowerAll(c.base)), c.times)

\* pos.startswith('NN')
IsNoun(tok) == Tag(tok) \in {"NN", "NNS", "NNP", "NNPS"}
\* <JJ>
IsAdj(tok) == Tag(tok) = "JJ"

NounRunStarts(t) ==
    SelectSeq(Indices(t), LAMBDA i : IsNoun(t[i]) /\ (i = 1 \/ ~IsNoun(t[i - 1])))

NounRunEnd(t, i) ==
    CHOOSE j \in i..Len(t) :
        /\ \A k \in i..j : IsNoun(t[k])
        /\ j = Len(t) \/ ~IsNoun(t[j + 1])

\* set(target_content.lower().split())
target_words(c) == {Lower(Words(c)[i]) : i \in 1..WordCount(c)}

TargetWordsTable == {<<c, target_words(c)>> : c \in ContentPool}
TargetWordsOf(c) == (CHOOSE r \in TargetWordsTable : r[1] = c)[2]

(***************************************************************************)
(* internal_link_planner_v2.py: anchor engine                              *)
(***************************************************************************)
\* Variant: the maximal runs of nouns, whatever their length
NounRuns(c) ==
    LET t  == ContentTokens(c)
        st == NounRunStarts(t)
    IN  [k \in 1..Len(st) |-> SubSeq(t, st[k], NounRunEnd(t, st[k]))]

\* The maximal runs of nouns, in text order, then the 2-5 word filter.
NounPhrasesPOS(c) ==
    LET t  == ContentTokens(c)
        st == NounRunStarts(t)
        runs == [k \in 1..Len(st) |-> SubSeq(t, st[k], NounRunEnd(t, st[k]))]
    IN  SelectSeq(runs, LAMBDA p : /\ min_anchor_words <= Len(p)
                                  /\ Len(p) <= max_anchor_words)

\* re.findall(r'\b[A-Z][a-z]+(?:\s+[A-Z][a-z]+){1,4}\b', text): a chain of
\* capitalized words is consumed greedily, 5 words at a time; a match needs 2.
CapChainEnd(ws, i) ==
    CHOOSE j \in i..Len(ws) :
        /\ \A k \in i..(j - 1) : CapPure(ws[k]) /\ Cap(ws[k + 1])
        /\ j = Len(ws) \/ ~CapPure(ws[j]) \/ ~Cap(ws[j + 1])

CapMatch(ws, lo, hi) ==
    [k \in 1..(hi - lo + 1) |-> IF lo + k - 1 = hi THEN Stem(ws[hi]) ELSE ws[lo + k - 1]]

extract_noun_phrases_regex(c) ==
    LET ws == Words(c)
        starts == {i \in 1..Len(ws) : Cap(ws[i]) /\ (i = 1 \/ ~CapPure(ws[i - 1]))}
        Min(a, b) == IF a < b THEN a ELSE b
    IN  UNION { LET j == CapChainEnd(ws, i)
                IN  { CapMatch(ws, i + 5 * m, Min(i + 5 * m + 4, j)) :
                        m \in {n \in 0..((j - i) \div 5) : j - (i + 5 * n) >= 1} }
              : i \in starts }

\* The sequences that enumerate a finite set: list(set(phrases)).
RECURSIVE Orderings(_)
Orderings(S) ==
    IF S = {} THEN {<<>>}
    ELSE UNION { {<<x>> \o rest : rest \in Orderings(S \ {x})} : x \in S }

\* extract_noun_phrases(text): the lists it may return; several only when the
\* tagger fails and the regex fallback returns list(set(...)).
extract_noun_phrases(c, tagger_ok) ==
    IF WordCount(c) = 0 THEN {<<>>}
    ELSE IF tagger_ok THEN {NounPhrasesPOS(c)}
    ELSE Orderings(extract_noun_phrases_regex(c))

NounPhrasesTable ==
    {<<c, ok, extract_noun_phrases(c, ok)>> : c \in ContentPool, ok \in BOOLEAN}
NounPhrasesOf(c, ok) ==
    (CHOOSE r \in NounPhrasesTable : r[1] = c /\ r[2] = ok)[3]

Overlap(phrase, tw) == Cardinality({Lower(phrase[i]) : i \in 1..Len(phrase)} \cap tw)

\* select_best_anchor(candidate_phrases, target_content): the first phrase
\* with at least min_anchor_overlap words in the target
select_best_anchor_v2(candidate_phrases, target_content) ==
    IF candidate_phrases = <<>> \/ WordCount(target_content) = 0 THEN NoAnchor
    ELSE LET tw   == TargetWordsOf(target_content)
             hits == SelectSeq(candidate_phrases,
                               LAMBDA p : Overlap(p, tw) >= min_anchor_overlap)
         IN  IF hits = <<>> THEN NoAnchor ELSE Head(hits)

(***************************************************************************)
(* internal_link_planner.py: anchor engine                                 *)
(***************************************************************************)
None == [none |-> TRUE]

\* re.split(r'(?<=[.!?])\s+', content): the sentences, as word sequences; a
\* text that ends with punctuation and a space has a last, empty piece.
SentenceEnd(ws, i) ==
    CHOOSE j \in i..Len(ws) :
        /\ \A k \in i..(j - 1) : ~EndsSentence(ws[k])
        /\ j = Len(ws) \/ EndsSentence(ws[j])

Sentences(c) ==
    LET ws == Words(c)
        st == SelectSeq(Indices(ws), LAMBDA i : i = 1 \/ EndsSentence(ws[i - 1]))
        full == [k \in 1..Len(st) |-> SubSeq(ws, st[k], SentenceEnd(ws, st[k]))]
    IN  IF ws = <<>> \/ EndsSentence(ws[Len(ws)]) THEN Append(full, <<>>) ELSE full

\* NP: {<JJ>*<NN.*>+}: each maximal run of nouns with the adjectives before it
ChunkStart(t, n) ==
    CHOOSE a \in 1..n :
        /\ \A k \in a..(n - 1) : IsAdj(t[k])
        /\ a = 1 \/ ~IsAdj(t[a - 1])

RECURSIVE Flatten(_)
Flatten(ss) == IF ss = <<>> THEN <<>> ELSE Head(ss) \o Flatten(Tail(ss))

\* for i in range(len(words)):
\*     for j in range(i + MIN_ANCHOR_WORDS, min(i + MAX_ANCHOR_WORDS + 1, len(words))):
\*         words[i:j]
WindowsFrom(words, i) ==
    LET lo == i + MIN_ANCHOR_WORDS
        hi == IF i + MAX_ANCHOR_WORDS + 1 < Len(words)
              THEN i + MAX_ANCHOR_WORDS + 1 ELSE Len(words)
    IN  [n \in 1..(IF hi > lo THEN hi - lo ELSE 0) |->
            SubSeq(words, i + 1, lo + n - 1)]

extract_candidate_phrases(sentence, tagger_ok) ==
    IF tagger_ok
    THEN LET t  == word_tokenize(LowerAll(sentence))
             st == NounRunStarts(t)
             np == [k \in 1..Len(st) |->
                       SubSeq(t, ChunkStart(t, st[k]), NounRunEnd(t, st[k]))]
         IN  SelectSeq(np, LAMBDA p : /\ MIN_ANCHOR_WORDS <= Len(p)
                                      /\ Len(p) <= MAX_ANCHOR_WORDS)
    ELSE LET alpha == SelectSeq(LowerAll(sentence), Alpha3)
             words == [k \in 1..Len(alpha) |-> Stem(alpha[k])]
         IN  Flatten([i \in 1..Len(words) |-> WindowsFrom(words, i - 1)])

\* clean_anchor(anchor)
clean_anchor(anchor) ==
    LET words == SelectSeq(anchor, LAMBDA w : w \notin STOPWORDS)
    IN  IF MIN_ANCHOR_WORDS <= Len(words) /\ Len(words) <= MAX_ANCHOR_WORDS
        THEN words ELSE None

\* score_phrase(phrase, target_content)
score_phrase(phrase, target_content) ==
    Cardinality({i \in 1..Len(phrase) : phrase[i] \in TargetWordsOf(target_content)})

\* The first phrase of `scored` that no other phrase beats on
\* (score, len(phrase)): scored.sort(key=..., reverse=True) is stable.
BestScored(scored, target_content) ==
    LET Key(p)  == <<score_phrase(p, target_content), PhraseLen(p)>>
        Less(a, b) == a[1] < b[1] \/ (a[1] = b[1] /\ a[2] < b[2])
    IN  scored[CHOOSE i \in 1..Len(scored) :
                 /\ \A j \in 1..Len(scored) : ~Less(Key(scored[i]), Key(scored[j]))
                 /\ \A j \in 1..(i - 1) : Less(Key(scored[j]), Key(scored[i]))]

\* select_best_anchor(sentence, target_content): the best-scored phrase, cleaned
select_best_anchor(sentence, target_content, tagger_ok) ==
    ByValue(LAMBDA scored :
                IF scored = <<>> THEN None
                ELSE ByValue(LAMBDA cleaned :
                                 IF cleaned # None /\ Len(cleaned) >= 2
                                 THEN cleaned ELSE None,
                             clean_anchor(BestScored(scored, target_content))),
            SelectSeq(extract_candidate_phrases(sentence, tagger_ok),
                      LAMBDA p : score_phrase(p, target_content) >= 2))

\* fallback_anchor(sentence): the first phrase that survives cleaning
fallback_anchor(sentence, tagger_ok) ==
    ByValue(LAMBDA ok : IF ok = <<>> THEN None ELSE clean_anchor(Head(ok)),
            SelectSeq(extract_candidate_phrases(sentence, tagger_ok),
                      LAMBDA p : clean_anchor(p) # None))

\* The anchor of one sentence in plan_semantic_links' inner loop:
\* select_best_anchor, and fallback_anchor when it finds none.
SentenceAnchor(sentence, target_content, tagger_ok) ==
    ByValue(LAMBDA anchor :
                IF anchor # None THEN anchor ELSE fallback_anchor(sentence, tagger_ok),
            select_best_anchor(sentence, target_content, tagger_ok))

\* The first sentence of the source that yields an anchor (then `break`):
\* [anchor, sentence], or None when no sentence does.
FirstLink(source_content, target_content, tagger_ok) ==
    ByValue(LAMBDA found :
                IF found = <<>> THEN None
                ELSE [anchor |-> Head(found)[2], sentence |-> Head(found)[1]],
            SelectSeq(ByValue(LAMBDA ss :
                                  [k \in 1..Len(ss) |->
                                      <<ss[k], SentenceAnchor(ss[k], target_content,
                                                              tagger_ok)>>],
                              Sentences(source_content)),
                      LAMBDA r : r[2] # None))

FirstLinkTable ==
    {<<s, t, ok, FirstLink(s, t, ok)>> : s \in ContentPool, t \in ContentPool, ok \in BOOLEAN}
FirstLinkOf(s, t, ok) ==
    (CHOOSE r \in FirstLinkTable : r[1] = s /\ r[2] = t /\ r[3] = ok)[4]

(***************************************************************************)
(* State                                                                   *)
(***************************************************************************)
VARIABLES
    gen,              \* "v1": internal_link_planner.py, "v2": internal_link_planner_v2.py
    nltk_ok,          \* whether word_tokenize / pos_tag work in this process
    pages,            \* the page dicts handed in
    cluster_labels,   \* the labels handed in
    pc,               \* "start", "loop", "returned", "raised"
    clusters,         \* the dict label -> members, as a sequence in insertion order
    ci,               \* clusters already visited by the for loop
    recommendations,  \* the list being built (`links` in v1)
    source_to_target, \* v2: source_url -> set of target urls
    error,            \* the LinkPlanningError message, "" if none
    visited,          \* history: per visited cluster, what the loop body did
    origin,           \* history: per recommendation, the page indices it came from
    \* SemanticClusterer.cluster_pages
    clustering,       \* config.clustering, a ClusteringConfig instance
    encode_ok,        \* whether self.model.encode(pages) succeeds
    cpc,              \* "start", "search", "returned", "raised"
    min_clusters,     \* the local min_clusters
    max_clusters,     \* the local max_clusters
    n_clusters,       \* the loop variable of `for n_clusters in range(...)`
    best_score,       \* in hundredths
    best_labels,      \* <<>> for None
    best_n,
    result,           \* the tuple returned, <<>> before
    cluster_error,    \* the ClusteringError message, "" if none
    warnings,         \* the logger.warning calls so far
    sklearn,          \* per k, what KMeans and silhouette_score do on these pages
    evaluated,        \* history: per loop iteration, the random_state handed to
                      \* KMeans (a set, empty if none was) and the exception raised
    \* one call of an anchor function
    source_text,      \* the sentence (v1) or source content (v2) handed in
    target_text,      \* the target content handed in
    apc,              \* "idle", "start", "done"
    fn,               \* the function called, "" before
    considered,       \* the candidate phrases the function worked on
    returned,         \* the anchor returned, <<>> for None
    \* crawler.crawl_pages / crawler_v2.crawl_pages
    site,             \* the start URL handed in
    limit,            \* the page ceiling
    web,              \* per resource of the site, what a GET does and the hrefs
                      \* of the document
    kpc,              \* "idle", "start", "crawling", "returned", "raised"
    crawl_visited,    \* the set `visited`
    crawl_result,     \* the CrawlResult (v1: its pages only)
    stack,            \* the calls of crawl_recursive under way, innermost last
    fetched,          \* history: the URLs requested, in order
    \* run_agent.run
    rpc,              \* "idle", "start", "crawl", "extract", "cluster", "returned"
    extractable,      \* the resources whose html extract_content accepts
    output_ok,        \* whether the output files can be written
    agent,            \* the AgentResult
    stages            \* history: the pipeline steps run() has entered, in order

pvars == <<gen, nltk_ok, cluster_labels, pc, clusters, ci, recommendations,
           source_to_target, error, visited, origin>>

cvars == <<clustering, encode_ok, cpc, min_clusters, max_clusters, n_clusters,
           best_score, best_labels, best_n, result, cluster_error, warnings,
           sklearn, evaluated>>

avars == <<source_text, target_text, apc, fn, considered, returned>>

kvars == <<site, limit, web, kpc, crawl_visited, crawl_result, stack, fetched>>

rvars == <<rpc, extractable, output_ok, agent, stages>>

vars == <<pages, pvars, cvars, avars, kvars, rvars>>

inputs == <<gen, nltk_ok, pages, cluster_labels>>

(***************************************************************************)
(* Grouping by label                                                       *)
(***************************************************************************)
\* Variant: the groups in ascending order of their label
GroupBySortedLabel(labels, n) ==
    LET keys == {labels[i] : i \in 1..n}
        Rank(l) == Cardinality({x \in keys : x < l}) + 1
    IN  [k \in 1..Cardinality(keys) |->
            LET l == CHOOSE x \in keys : Rank(x) = k
            IN  [label   |-> l,
                 members |-> SelectSeq([i \in 1..n |-> i], LAMBDA i : labels[i] = l)]]

\* The dict built by
\*     for idx, label in enumerate(cluster_labels): clusters[label].append(idx)
\* over the first n labels: keys in order of first appearance, members ascending.
GroupByLabel(labels, n) ==
    LET first == SelectSeq([i \in 1..n |-> i],
                           LAMBDA i : \A j \in 1..(i - 1) : labels[j] # labels[i])
    IN  [k \in 1..Len(first) |->
            [label   |-> labels[first[k]],
             members |-> SelectSeq([i \in 1..n |-> i],
                                   LAMBDA i : labels[i] = labels[first[k]])]]

\* build_semantic_clusters(pages, labels): zip stops at the shorter argument
build_semantic_clusters(ps, labels) ==
    GroupByLabel(labels, IF Len(ps) < Len(labels) THEN Len(ps) ELSE Len(labels))

(***************************************************************************)
(* Pillar selection                                                        *)
(***************************************************************************)
\* The first member of `valid` that no other member exceeds in len(content):
\* max(valid, key=lambda p: len(p["content"]))
MaxByContent(ps, valid) ==
    valid[CHOOSE k \in 1..Len(valid) :
            /\ \A j \in 1..Len(valid) :
                  CharLen(ps[valid[j]].content) <= CharLen(ps[valid[k]].content)
            /\ \A j \in 1..(k - 1) :
                  CharLen(ps[valid[j]].content) < CharLen(ps[valid[k]].content)]

\* Variant: identify_pillar without the `if not valid: return None` exit,
\* taking the longest page of the cluster instead
identify_pillar_of_any(ps, cluster_pages) ==
    LET worthy == SelectSeq(cluster_pages,
                     LAMBDA i : /\ ~is_utility_page(ps[i].url)
                                /\ WordCount(ps[i].content) >= MIN_PILLAR_WORDS)
        valid  == IF worthy # <<>> THEN worthy
                  ELSE SelectSeq(cluster_pages, LAMBDA i : ~is_utility_page(ps[i].url))
    IN  IF valid = <<>> THEN MaxByContent(ps, cluster_pages)
        ELSE MaxByContent(ps, valid)

\* v1 identify_pillar(cluster_pages): a page index, 0 for None
identify_pillar(ps, cluster_pages) ==
    LET worthy == SelectSeq(cluster_pages,
                     LAMBDA i : /\ ~is_utility_page(ps[i].url)
                                /\ WordCount(ps[i].content) >= MIN_PILLAR_WORDS)
        valid  == IF worthy # <<>> THEN worthy
                  ELSE SelectSeq(cluster_pages, LAMBDA i : ~is_utility_page(ps[i].url))
    IN  IF valid = <<>> THEN 0 ELSE MaxByContent(ps, valid)

\* Variant: a later page of equal length replaces the pillar
LongerOrEqual(content_length, pillar_length) == content_length >= pillar_length

\* Variant: every page may become the pillar
EligibleAny(page) == TRUE

\* v2: if content_length > pillar_length
Longer(content_length, pillar_length) == content_length > pillar_length

\* v2: if not is_utility_page(page.get("url", ""), page.get("title", ""))
Eligible(page) == ~is_utility_page_v2(page.url, page.title)

\* v2: the scan `for idx in page_indices` from position k on, with the pillar
\* found so far (0 for None) and its length
RECURSIVE PillarScan(_, _, _, _, _)
PillarScan(ps, page_indices, k, pillar_idx, pillar_length) ==
    IF k > Len(page_indices) THEN pillar_idx
    ELSE LET idx  == page_indices[k]
             page == ps[idx]
             content_length == CharLen(page.content)
         IN  IF Eligible(page) /\ Longer(content_length, pillar_length)
             THEN PillarScan(ps, page_indices, k + 1, idx, content_length)
             ELSE PillarScan(ps, page_indices, k + 1, pillar_idx, pillar_length)

find_pillar_v2(ps, page_indices) == PillarScan(ps, page_indices, 1, 0, 0)

(***************************************************************************)
(* The loop over a cluster's pages                                         *)
(***************************************************************************)
\* Variant: no comparison of the two urls
SelfLinkNever(source_url, pillar_url) == FALSE

\* Variant: the recorded targets are not consulted
NeverRecommended(s2t, source_url, pillar_url) == FALSE

\* v2: if source_url == pillar_url: continue
\* v1: if page["url"] == pillar["url"]: continue
SelfLink(source_url, pillar_url) == source_url = pillar_url

\* v2: if pillar_url in source_to_target[source_url]: continue
AlreadyRecommended(s2t, source_url, pillar_url) == pillar_url \in s2t[source_url]

\* v2: one iteration of `for idx in page_indices` for page idx, from the
\* accumulated [recs, s2t, origin]; a set, since the anchor may depend on the
\* order of list(set(...))
V2SourceStep(ps, tagger_ok, pillar_idx, acc, idx) ==
    LET source     == ps[idx]
        source_url == source.url
        pillar     == ps[pillar_idx]
        pillar_url == pillar.url
        s2t == IF source_url \in DOMAIN acc.s2t THEN acc.s2t
               ELSE acc.s2t @@ (source_url :> {})
    IN  IF idx = pillar_idx THEN {acc}
        ELSE IF is_utility_page_v2(source_url, source.title) THEN {acc}
        ELSE IF SelfLink(source_url, pillar_url) THEN {acc}
        ELSE IF AlreadyRecommended(s2t, source_url, pillar_url)
             THEN {[acc EXCEPT !.s2t = s2t]}
        ELSE { IF anchor # NoAnchor
               THEN [recs   |-> Append(acc.recs,
                                       [source_url |-> source_url,
                                        target_url |-> pillar_url,
                                        anchor     |-> anchor]),
                     s2t    |-> [s2t EXCEPT ![source_url] = @ \cup {pillar_url}],
                     origin |-> Append(acc.origin,
                                       [source |-> idx, pillar |-> pillar_idx])]
               ELSE [acc EXCEPT !.s2t = s2t]
             : anchor \in { select_best_anchor_v2(phrases, pillar.content) :
                             phrases \in NounPhrasesOf(source.content, tagger_ok) } }

\* Variant: the loop over the cluster's pages ends with the page (`break`)
BreakPages(k, n) == n + 1

\* The loop over the cluster's pages goes on to the next page, whether the
\* page was skipped (`continue`) or not
ContinuePages(k, n) == k + 1

RECURSIVE V2LinkLoop(_, _, _, _, _, _)
V2LinkLoop(ps, tagger_ok, pillar_idx, page_indices, k, acc) ==
    IF k > Len(page_indices) THEN {acc}
    ELSE UNION { V2LinkLoop(ps, tagger_ok, pillar_idx, page_indices,
                            ContinuePages(k, Len(page_indices)), nxt) :
                 nxt \in V2SourceStep(ps, tagger_ok, pillar_idx, acc, page_indices[k]) }

\* v1: one iteration of `for page in cluster_pages`
V1SourceStep(ps, tagger_ok, pillar_idx, acc, idx) ==
    LET page   == ps[idx]
        pillar == ps[pillar_idx]
        link   == FirstLinkOf(page.content, pillar.content, tagger_ok)
    IN  IF SelfLink(page.url, pillar.url) THEN acc
        ELSE IF is_utility_page(page.url) THEN acc
        ELSE IF link = None THEN acc
        ELSE [acc EXCEPT
                !.recs   = Append(@, [from     |-> page.url,
                                      to       |-> pillar.url,
                                      anchor   |-> link.anchor,
                                      sentence |-> link.sentence]),
                !.origin = Append(@, [source |-> idx, pillar |-> pillar_idx])]

RECURSIVE V1LinkLoop(_, _, _, _, _, _)
V1LinkLoop(ps, tagger_ok, pillar_idx, cluster_pages, k, acc) ==
    IF k > Len(cluster_pages) THEN acc
    ELSE V1LinkLoop(ps, tagger_ok, pillar_idx, cluster_pages,
                    ContinuePages(k, Len(cluster_pages)),
                    V1SourceStep(ps, tagger_ok, pillar_idx, acc, cluster_pages[k]))

(***************************************************************************)
(* Initial state: the arguments of one call                                *)
(***************************************************************************)
\* No cluster_pages call is under way.
ClustererIdle ==
    /\ clustering = ClusteringConfig(2, MaxClusters, min_silhouette_score)
    /\ encode_ok = TRUE
    /\ cpc = "idle"
    /\ min_clusters = 0 /\ max_clusters = 0 /\ n_clusters = 0
    /\ best_score = 0 /\ best_labels = <<>> /\ best_n = 0
    /\ result = <<>>
    /\ cluster_error = ""
    /\ warnings = <<>>
    /\ sklearn = [k \in 2..MaxPages |-> [raised |-> "ValueError", score |-> 0]]
    /\ evaluated = <<>>

\* CrawlResult()
CrawlResult ==
    [pages |-> <<>>, errors |-> <<>>,
     total_attempted |-> 0, total_success |-> 0, total_failed |-> 0]

\* No crawl is under way.
CrawlerIdle ==
    /\ site = "" /\ limit = 0
    /\ web = [r \in {} |-> 0]
    /\ kpc = "idle"
    /\ crawl_visited = {}
    /\ crawl_result = CrawlResult
    /\ stack = <<>>
    /\ fetched = <<>>

\* AgentResult()
AgentResult ==
    [total_pages |-> 0, usable_pages |-> 0, recommendations |-> <<>>,
     errors |-> <<>>, success |-> FALSE]

\* run() is not being called.
RunIdle ==
    /\ rpc = "idle"
    /\ extractable = {}
    /\ output_ok = TRUE
    /\ agent = AgentResult
    /\ stages = <<>>

\* No anchor function is being called on its own.
AnchorIdle ==
    /\ source_text = cEmpty /\ target_text = cEmpty
    /\ apc = "idle" /\ fn = ""
    /\ considered = <<>> /\ returned = NoAnchor

Init ==
    /\ AnchorIdle
    /\ CrawlerIdle
    /\ RunIdle
    /\ gen \in {"v1", "v2"}
    /\ nltk_ok \in BOOLEAN
    /\ \E n \in 0..MaxPages :
         \E m \in {k \in 0..MaxPages : k - n \in {-1, 0, 1}} :
            /\ pages \in [1..n -> PagePool]
            /\ cluster_labels \in [1..m -> Labels]
    /\ pc = "start"
    /\ clusters = <<>>
    /\ ci = 0
    /\ recommendations = <<>>
    /\ source_to_target = [u \in {} |-> {}]
    /\ error = ""
    /\ visited = <<>>
    /\ origin = <<>>
    /\ ClustererIdle

\* Variant: only empty clusters are skipped
Empty(page_indices) == Len(page_indices) < 1

\* if len(page_indices) < 2: continue
TooSmall(page_indices) == Len(page_indices) < 2

Visit(outcome, pillar_idx) ==
    visited' = Append(visited, [label   |-> clusters[ci + 1].label,
                                members |-> clusters[ci + 1].members,
                                outcome |-> outcome,
                                pillar  |-> pillar_idx])

(***************************************************************************)
(* internal_link_planner_v2.plan_semantic_links                            *)
(***************************************************************************)
\* The argument checks, then the grouping by label.
V2Start ==
    /\ gen = "v2" /\ pc = "start"
    /\ IF TooFewPages(pages)
       THEN pc' = "raised" /\ error' = "Need at least 2 pages"
            /\ UNCHANGED clusters
       ELSE IF Len(cluster_labels) # Len(pages)
       THEN pc' = "raised" /\ error' = "Cluster labels length mismatch"
            /\ UNCHANGED clusters
       ELSE pc' = "loop" /\ UNCHANGED error
            /\ clusters' = GroupByLabel(cluster_labels, Len(cluster_labels))
    /\ UNCHANGED <<cvars, avars, kvars, rvars>>
    /\ UNCHANGED <<inputs, ci, recommendations, source_to_target, visited, origin>>

\* A cluster with fewer than 2 pages: continue.
V2SkipSmall ==
    /\ gen = "v2" /\ pc = "loop" /\ ci < Len(clusters)
    /\ TooSmall(clusters[ci + 1].members)
    /\ ci' = ci + 1
    /\ Visit("small", 0)
    /\ UNCHANGED <<cvars, avars, kvars, rvars>>
    /\ UNCHANGED <<inputs, pc, clusters, recommendations, source_to_target, error, origin>>

\* No pillar found: continue.
V2NoPillar ==
    /\ gen = "v2" /\ pc = "loop" /\ ci < Len(clusters)
    /\ ~TooSmall(clusters[ci + 1].members)
    /\ find_pillar_v2(pages, clusters[ci + 1].members) = 0
    /\ ci' = ci + 1
    /\ Visit("no_pillar", 0)
    /\ UNCHANGED <<cvars, avars, kvars, rvars>>
    /\ UNCHANGED <<inputs, pc, clusters, recommendations, source_to_target, error, origin>>

\* A pillar is found: the loop over the cluster's pages.
V2Link ==
    /\ gen = "v2" /\ pc = "loop" /\ ci < Len(clusters)
    /\ ~TooSmall(clusters[ci + 1].members)
    /\ LET page_indices == clusters[ci + 1].members
           pillar_idx   == find_pillar_v2(pages, page_indices)
       IN  /\ pillar_idx # 0
           /\ \E out \in V2LinkLoop(pages, nltk_ok, pillar_idx, page_indices, 1,
                                    [recs   |-> recommendations,
                                     s2t    |-> source_to_target,
                                     origin |-> origin]) :
                /\ recommendations' = out.recs
                /\ source_to_target' = out.s2t
                /\ origin' = out.origin
           /\ Visit("linked", pillar_idx)
    /\ ci' = ci + 1
    /\ UNCHANGED <<cvars, avars, kvars, rvars>>
    /\ UNCHANGED <<inputs, pc, clusters, error>>

\* return recommendations
V2Return ==
    /\ gen = "v2" /\ pc = "loop" /\ ci = Len(clusters)
    /\ pc' = "returned"
    /\ UNCHANGED <<cvars, avars, kvars, rvars>>
    /\ UNCHANGED <<inputs, clusters, ci, recommendations, source_to_target, error,
                   visited, origin>>

(***************************************************************************)
(* semantic_graph.build_semantic_clusters, then                            *)
(* internal_link_planner.plan_semantic_links                               *)
(***************************************************************************)
V1Build ==
    /\ gen = "v1" /\ pc = "start"
    /\ clusters' = build_semantic_clusters(pages, cluster_labels)
    /\ pc' = "loop"
    /\ UNCHANGED <<cvars, avars, kvars, rvars>>
    /\ UNCHANGED <<inputs, ci, recommendations, source_to_target, error, visited, origin>>

V1SkipSmall ==
    /\ gen = "v1" /\ pc = "loop" /\ ci < Len(clusters)
    /\ TooSmall(clusters[ci + 1].members)
    /\ ci' = ci + 1
    /\ Visit("small", 0)
    /\ UNCHANGED <<cvars, avars, kvars, rvars>>
    /\ UNCHANGED <<inputs, pc, clusters, recommendations, source_to_target, error, origin>>

V1NoPillar ==
    /\ gen = "v1" /\ pc = "loop" /\ ci < Len(clusters)
    /\ ~TooSmall(clusters[ci + 1].members)
    /\ identify_pillar(pages, clusters[ci + 1].members) = 0
    /\ ci' = ci + 1
    /\ Visit("no_pillar", 0)
    /\ UNCHANGED <<cvars, avars, kvars, rvars>>
    /\ UNCHANGED <<inputs, pc, clusters, recommendations, source_to_target, error, origin>>

V1Link ==
    /\ gen = "v1" /\ pc = "loop" /\ ci < Len(clusters)
    /\ ~TooSmall(clusters[ci + 1].members)
    /\ LET cluster_pages == clusters[ci + 1].members
           pillar_idx    == identify_pillar(pages, cluster_pages)
           out == V1LinkLoop(pages, nltk_ok, pillar_idx, cluster_pages, 1,
                             [recs |-> recommendations, origin |-> origin])
       IN  /\ pillar_idx # 0
           /\ recommendations' = out.recs
           /\ origin' = out.origin
           /\ Visit("linked", pillar_idx)
    /\ ci' = ci + 1
    /\ UNCHANGED <<cvars, avars, kvars, rvars>>
    /\ UNCHANGED <<inputs, pc, clusters, source_to_target, error>>

\* return links
V1Return ==
    /\ gen = "v1" /\ pc = "loop" /\ ci = Len(clusters)
    /\ pc' = "returned"
    /\ UNCHANGED <<cvars, avars, kvars, rvars>>
    /\ UNCHANGED <<inputs, clusters, ci, recommendations, source_to_target, error,
                   visited, origin>>

Next ==
    \/ V2Start \/ V2SkipSmall \/ V2NoPillar \/ V2Link \/ V2Return
    \/ V1Build \/ V1SkipSmall \/ V1NoPillar \/ V1Link \/ V1Return

Spec == Init /\ [][Next]_vars

(***************************************************************************)
(* semantic_topics_v2.SemanticClusterer.cluster_pages                      *)
(***************************************************************************)
\* No planner call is under way.
PlannerIdle ==
    /\ gen = "v2" /\ nltk_ok = TRUE
    /\ cluster_labels = <<>>
    /\ pc = "idle"
    /\ clusters = <<>>
    /\ ci = 0
    /\ recommendations = <<>>
    /\ source_to_target = [u \in {} |-> {}]
    /\ error = ""
    /\ visited = <<>>
    /\ origin = <<>>

\* One call cluster_pages(pages) on the texts of `pages`, under one
\* configuration.
InitCluster ==
    /\ AnchorIdle
    /\ CrawlerIdle
    /\ RunIdle
    /\ PlannerIdle
    /\ \E n \in 0..MaxPages : pages = [i \in 1..n |-> Site[((i - 1) % Len(Site)) + 1]]
    /\ clustering \in ClusteringConfigs
    /\ encode_ok \in BOOLEAN
    /\ sklearn \in [2..MaxPages -> Fits]
    /\ cpc = "start"
    /\ min_clusters = 0 /\ max_clusters = 0 /\ n_clusters = 0
    /\ best_score = 0 /\ best_labels = <<>> /\ best_n = 0
    /\ result = <<>>
    /\ cluster_error = ""
    /\ warnings = <<>>
    /\ evaluated = <<>>

\* Variant: a failed attempt ends the loop (`break`)
Break(k, hi) == hi + 1

\* except Exception: ... continue -- the loop goes on with the next k
Continue(k, hi) == k + 1

Max(a, b) == IF a >= b THEN a ELSE b
Min(a, b) == IF a <= b THEN a ELSE b

\* Lines 52-72: the size check, the embeddings, the range and the start values.
ClusterStart ==
    /\ cpc = "start"
    /\ IF TooFewPages(pages)
       THEN /\ cpc' = "raised"
            /\ cluster_error' = "Need at least 2 pages to cluster"
            /\ UNCHANGED <<min_clusters, max_clusters, n_clusters, best_score, best_n>>
       ELSE IF ~encode_ok
       THEN /\ cpc' = "raised"
            /\ cluster_error' = "Clustering failed"
            /\ UNCHANGED <<min_clusters, max_clusters, n_clusters, best_score, best_n>>
       ELSE /\ cpc' = "search"
            /\ min_clusters' = Max(clustering.min_clusters, 2)
            /\ max_clusters' = Min(clustering.max_clusters, Len(pages))
            /\ best_score' = -100
            /\ best_n' = Max(clustering.min_clusters, 2)
            /\ n_clusters' = Max(clustering.min_clusters, 2)
            /\ UNCHANGED cluster_error
    /\ UNCHANGED <<pages, pvars, avars, kvars, rvars, clustering, encode_ok, 
                   best_labels, result,
                   warnings, sklearn, evaluated>>

\* Lines 74-93: one iteration of the loop. The try block first reads
\* config.clustering.random_seed; an AttributeError, like any exception of
\* KMeans or silhouette_score, is logged and the iteration ends.
ClusterEvaluate ==
    /\ cpc = "search"
    /\ n_clusters <= max_clusters
    /\ IF ~HasAttr(clustering, "random_seed")
       THEN /\ evaluated' = Append(evaluated, [n_clusters   |-> n_clusters,
                                               random_state |-> {},
                                               raised       |-> "AttributeError"])
            /\ warnings' = Append(warnings, "Failed to evaluate")
            /\ n_clusters' = Continue(n_clusters, max_clusters)
            /\ UNCHANGED <<best_score, best_labels, best_n>>
       ELSE LET fit    == sklearn[n_clusters]
                labels == fit_predict(Len(pages), n_clusters)
                score  == fit.score
            IN  /\ evaluated' = Append(evaluated,
                                       [n_clusters   |-> n_clusters,
                                        random_state |-> {clustering.random_seed},
                                        raised       |-> fit.raised])
                /\ IF fit.raised # ""
                   THEN /\ warnings' = Append(warnings, "Failed to evaluate")
                        /\ n_clusters' = Continue(n_clusters, max_clusters)
                        /\ UNCHANGED <<best_score, best_labels, best_n>>
                   ELSE /\ UNCHANGED warnings
                        /\ n_clusters' = n_clusters + 1
                        /\ IF score > best_score
                           THEN /\ best_score' = score
                                /\ best_labels' = labels
                                /\ best_n' = n_clusters
                           ELSE UNCHANGED <<best_score, best_labels, best_n>>
    /\ UNCHANGED <<pages, pvars, avars, kvars, rvars, clustering, encode_ok, 
                   cpc, min_clusters,
                   max_clusters, result, cluster_error, sklearn>>

\* Lines 95-110: after the loop.
ClusterFinish ==
    /\ cpc = "search"
    /\ n_clusters > max_clusters
    /\ IF best_labels = <<>>
       THEN /\ cpc' = "raised"
            /\ cluster_error' = "Could not compute valid clustering"
            /\ UNCHANGED <<result, warnings>>
       ELSE /\ cpc' = "returned"
            /\ result' = <<best_labels, best_score>>
            /\ warnings' = IF best_score < clustering.min_silhouette_score
                           THEN Append(warnings, "Low silhouette score")
                           ELSE warnings
            /\ UNCHANGED cluster_error
    /\ UNCHANGED <<pages, pvars, avars, kvars, rvars, clustering, encode_ok, 
                   min_clusters, max_clusters,
                   n_clusters, best_score, best_labels, best_n, sklearn, evaluated>>

NextCluster == ClusterStart \/ ClusterEvaluate \/ ClusterFinish

SpecCluster == InitCluster /\ [][NextCluster]_vars

(***************************************************************************)
(* Reading the result                                                      *)
(***************************************************************************)
\* v2 recommendations carry source_url / target_url, v1 links carry from / to
SourceUrl(r) == IF gen = "v1" THEN r.from ELSE r.source_url
TargetUrl(r) == IF gen = "v1" THEN r.to ELSE r.target_url

Recs == 1..Len(recommendations)

\* The keyword list the running planner is configured with
UtilityKeywords == IF gen = "v1" THEN UTILITY_KEYWORDS ELSE utility_keywords

\* A url holding one of the keywords, whatever its case
UrlHasUtilityKeyword(url) ==
    \E k \in UtilityKeywords : Contains(Lower(url), Lower(k))

\* The running planner's own utility test of a page
IsUtility(page) ==
    IF gen = "v1" THEN is_utility_page(page.url)
    ELSE is_utility_page_v2(page.url, page.title)

Visits == 1..Len(visited)
Members(v) == {visited[v].members[k] : k \in 1..Len(visited[v].members)}

\* The recommendations that cluster visit v added
RecsOf(v) == {r \in Recs : origin[r].pillar \in Members(v)}

(***************************************************************************)
(* Properties of the plan                                                  *)
(***************************************************************************)
\* C1: over a whole run no two emitted recommendations share a source_url,
\* whichever clusters and pillars they come from.
C1_OneRecommendationPerSource ==
    \A i, j \in Recs :
        i # j => SourceUrl(recommendations[i]) # SourceUrl(recommendations[j])

\* C2: every emitted recommendation has a source_url different from its
\* target_url, also when two entries of the page list carry the same url.
C2_NoSelfLink ==
    \A r \in Recs : SourceUrl(recommendations[r]) # TargetUrl(recommendations[r])

\* The run is over, it emitted recommendations, and a linked cluster held a
\* second page with the url of its pillar.
C2_Witness ==
    /\ pc = "returned"
    /\ \E v \in Visits :
          /\ visited[v].outcome = "linked"
          /\ RecsOf(v) # {}
          /\ \E i \in Members(v) :
                /\ i # visited[v].pillar
                /\ pages[i].url = pages[visited[v].pillar].url

\* C3: no emitted recommendation has a source_url that contains, in any
\* case, one of the configured utility keywords.
C3_NoUtilitySource ==
    \A r \in Recs : ~UrlHasUtilityKeyword(SourceUrl(recommendations[r]))

\* The run is over and a cluster that added recommendations also held a page,
\* not its pillar, whose url contains a keyword in another case than the
\* keyword's.
C3_Witness ==
    /\ pc = "returned"
    /\ \E v \in Visits :
          /\ visited[v].outcome = "linked"
          /\ RecsOf(v) # {}
          /\ \E i \in Members(v) :
                /\ i # visited[v].pillar
                /\ UrlHasUtilityKeyword(pages[i].url)
                /\ Lower(pages[i].url) # pages[i].url

\* C4: the v2 planner's list never holds two recommendations with the same
\* (source_url, target_url) pair, and source_to_target records exactly the
\* pairs emitted so far.
C4_NoDuplicatePair ==
    gen = "v2" =>
        /\ \A i, j \in Recs :
              i # j => \/ SourceUrl(recommendations[i]) # SourceUrl(recommendations[j])
                       \/ TargetUrl(recommendations[i]) # TargetUrl(recommendations[j])
        /\ \A r \in Recs :
              /\ SourceUrl(recommendations[r]) \in DOMAIN source_to_target
              /\ TargetUrl(recommendations[r])
                    \in source_to_target[SourceUrl(recommendations[r])]
        /\ \A u \in DOMAIN source_to_target : \A t \in source_to_target[u] :
              \E r \in Recs : /\ SourceUrl(recommendations[r]) = u
                              /\ TargetUrl(recommendations[r]) = t

\* The v2 run is over; a cluster held two pages with one url, the first of
\* them was given a recommendation, so the second met the recorded pair.
C4_Witness ==
    /\ gen = "v2" /\ pc = "returned"
    /\ \E v \in Visits :
          /\ visited[v].outcome = "linked"
          /\ \E i, j \in Members(v) :
                /\ i < j
                /\ pages[i].url = pages[j].url
                /\ ~IsUtility(pages[j])
                /\ \E r \in RecsOf(v) : origin[r].source = i

\* C5: the pillar chosen for a cluster is never a utility page, and every
\* recommendation's target_url is the url of such a pillar.
C5_PillarNotUtility ==
    /\ \A v \in Visits :
          visited[v].pillar # 0 =>
              /\ visited[v].pillar \in Members(v)
              /\ ~IsUtility(pages[visited[v].pillar])
    /\ \A r \in Recs :
          /\ ~IsUtility(pages[origin[r].pillar])
          /\ TargetUrl(recommendations[r]) = pages[origin[r].pillar].url
          /\ \E v \in Visits : visited[v].pillar = origin[r].pillar

\* A cluster whose longest page is a utility page was given a pillar and
\* added recommendations.
C5_Witness ==
    \E v \in Visits :
        /\ visited[v].outcome = "linked"
        /\ RecsOf(v) # {}
        /\ \E i \in Members(v) :
              /\ IsUtility(pages[i])
              /\ \A j \in Members(v) \ {i} :
                    CharLen(pages[j].content) < CharLen(pages[i].content)

\* The configured word minimum of the running planner
MinPillarWords == IF gen = "v1" THEN MIN_PILLAR_WORDS ELSE min_pillar_words

\* The members of visit v, in cluster order, that are not utility pages and
\* reach the word minimum
PillarWorthy(v) ==
    SelectSeq(visited[v].members,
              LAMBDA i : /\ ~IsUtility(pages[i])
                         /\ WordCount(pages[i].content) >= MinPillarWords)

\* The members of visit v the running planner lets compete for pillar: v1
\* keeps the pillar-worthy ones if there are any, v2 every non-utility page
Candidates(v) ==
    IF gen = "v1" /\ PillarWorthy(v) # <<>> THEN PillarWorthy(v)
    ELSE SelectSeq(visited[v].members, LAMBDA i : ~IsUtility(pages[i]))

\* C6: when a cluster holds a non-utility page of at least min_pillar_words
\* words, its pillar is one of those pages, even if a page with fewer words
\* has more characters.
C6_PillarWorthyFirst ==
    \A v \in Visits :
        (visited[v].outcome # "small" /\ PillarWorthy(v) # <<>>) =>
            \E k \in 1..Len(PillarWorthy(v)) : visited[v].pillar = PillarWorthy(v)[k]

C8_AllUtilityCluster ==
    /\ \A v \in Visits :
          (Len(visited[v].members) >= 2
              /\ \A i \in Members(v) : IsUtility(pages[i])) =>
                /\ visited[v].outcome = "no_pillar"
                /\ visited[v].pillar = 0
                /\ \A r \in Recs : /\ origin[r].source \notin Members(v)
                                   /\ origin[r].pillar \notin Members(v)
    /\ \A v \in Visits : visited[v].label = clusters[v].label
                         /\ visited[v].members = clusters[v].members
    /\ pc = "returned" => Len(visited) = Len(clusters)

\* The run is over; it met a cluster of utility pages only and after it
\* linked another cluster.
C8_Witness ==
    /\ pc = "returned"
    /\ \E v, w \in Visits :
          /\ v < w
          /\ Len(visited[v].members) >= 2
          /\ \A i \in Members(v) : IsUtility(pages[i])
          /\ visited[w].outcome = "linked"
          /\ RecsOf(w) # {}

\* C9: a cluster of fewer than 2 pages is skipped before a pillar is looked
\* for, and none of its pages is the source or the target of a recommendation.
C9_SmallClusterSkipped ==
    \A v \in Visits :
        Len(visited[v].members) < 2 =>
            /\ visited[v].outcome = "small"
            /\ visited[v].pillar = 0
            /\ \A r \in Recs : /\ origin[r].source \notin Members(v)
                               /\ origin[r].pillar \notin Members(v)

\* The run is over; it met a one-page cluster whose page is not a utility
\* page and has content, and another cluster added recommendations.
C9_Witness ==
    /\ pc = "returned"
    /\ recommendations # <<>>
    /\ \E v \in Visits :
          /\ Len(visited[v].members) = 1
          /\ \A i \in Members(v) : /\ ~IsUtility(pages[i])
                                   /\ CharLen(pages[i].content) > 0

(***************************************************************************)
(* Properties of the cluster search                                        *)
(***************************************************************************)
\* C10: for every candidate k of the range the seed is read from the
\* clustering configuration (kmeans_seed, 42 by default) and k-means is run
\* with it.
C10_SeedFromConfig ==
    \A e \in 1..Len(evaluated) :
        /\ evaluated[e].raised # "AttributeError"
        /\ evaluated[e].random_state = {clustering.kmeans_seed}

\* The search has run: the range was set and the loop is over
Searched == cpc \in {"returned", "raised"} /\ min_clusters >= 2

\* range(min_clusters, max_clusters + 1)
SearchRange == min_clusters..max_clusters

\* The candidates KMeans and silhouette_score can evaluate
Evaluable == {k \in SearchRange : sklearn[k].raised = ""}

\* The candidates of greatest score among them
BestScoring ==
    {k \in Evaluable : \A j \in Evaluable : sklearn[j].score <= sklearn[k].score}

\* The smallest of a non-empty set of numbers
Smallest(S) == CHOOSE k \in S : \A j \in S : k <= j

\* C11: when several candidate k reach the same best score, the partition
\* returned is that of the smallest such k.
C11_SmallestBestK ==
    (Searched /\ Cardinality(BestScoring) >= 2) =>
        /\ cpc = "returned"
        /\ result = <<fit_predict(Len(pages), Smallest(BestScoring)),
                      sklearn[Smallest(BestScoring)].score>>

\* C12: the search ends in ClusteringError "Could not compute valid
\* clustering" only when no candidate k could be evaluated; as soon as one
\* yields labels and a score in [-1, 1], the labels (one per page) and the
\* score of a best-scoring candidate are returned.
C12_ReturnsBestCandidate ==
    Searched =>
        /\ (cpc = "raised") = (Evaluable = {})
        /\ cpc = "raised" => cluster_error = "Could not compute valid clustering"
        /\ Evaluable # {} =>
              /\ cpc = "returned"
              /\ \E k \in BestScoring :
                    result = <<fit_predict(Len(pages), k), sklearn[k].score>>
              /\ Len(result[1]) = Len(pages)

\* C13: a candidate k whose evaluation raises is skipped: the attempt leaves
\* best_score, best_labels and best_n as they were, the loop goes on with
\* k + 1, and all of the range has been tried when the loop is over.
C13_FailedKSkipped ==
    /\ [][(/\ Len(evaluated') = Len(evaluated) + 1
           /\ evaluated'[Len(evaluated')].raised # "")
          => /\ best_score' = best_score
             /\ best_labels' = best_labels
             /\ best_n' = best_n
             /\ cpc' = "search"
             /\ n_clusters' = n_clusters + 1]_vars
    /\ [](\A e \in 1..Len(evaluated) :
              evaluated[e].n_clusters = min_clusters + e - 1)
    /\ [](Searched => Len(evaluated) = Cardinality(SearchRange))

\* The loop is over; its first attempt raised and later candidates were
\* still tried.
C13_Witness ==
    /\ Searched
    /\ Len(evaluated) >= 3
    /\ evaluated[1].raised # ""
    /\ evaluated[Len(evaluated)].n_clusters = max_clusters

\* C15: a best score below min_silhouette_score is a warning only: the best
\* labels and score are returned as they would be otherwise and nothing is
\* raised.
C15_LowScoreOnlyWarns ==
    (/\ Searched
     /\ Evaluable # {}
     /\ \A k \in Evaluable : sklearn[k].score < clustering.min_silhouette_score) =>
        /\ cpc = "returned"
        /\ cluster_error = ""
        /\ \E k \in BestScoring :
              result = <<fit_predict(Len(pages), k), sklearn[k].score>>

(***************************************************************************)
(* The core on one page list: cluster_pages on the texts of the pages,     *)
(* then the v2 plan_semantic_links on the pages with some labels.          *)
(* run_agent.run makes the two calls in this order and the second only if  *)
(* the first returned; here the second is made in either case.             *)
(***************************************************************************)
InitCore ==
    /\ AnchorIdle
    /\ CrawlerIdle
    /\ RunIdle
    /\ gen = "v2"
    /\ nltk_ok \in BOOLEAN
    /\ \E n \in 0..MaxPages :
         \E m \in {k \in 0..MaxPages : k - n \in {-1, 0, 1}} :
            /\ pages \in [1..n -> PagePool]
            /\ cluster_labels \in [1..m -> Labels]
    /\ pc = "start"
    /\ clusters = <<>>
    /\ ci = 0
    /\ recommendations = <<>>
    /\ source_to_target = [u \in {} |-> {}]
    /\ error = ""
    /\ visited = <<>>
    /\ origin = <<>>
    /\ clustering = ClusteringConfig(2, MaxClusters, min_silhouette_score)
    /\ encode_ok = TRUE
    /\ cpc = "start"
    /\ min_clusters = 0 /\ max_clusters = 0 /\ n_clusters = 0
    /\ best_score = 0 /\ best_labels = <<>> /\ best_n = 0
    /\ result = <<>>
    /\ cluster_error = ""
    /\ warnings = <<>>
    /\ sklearn = [k \in 2..MaxPages |-> [raised |-> "", score |-> 50]]
    /\ evaluated = <<>>

\* The planner is called when cluster_pages is over.
NextCore ==
    \/ ClusterStart \/ ClusterEvaluate \/ ClusterFinish
    \/ (cpc \in {"returned", "raised"} /\ V2Start)
    \/ V2SkipSmall \/ V2NoPillar \/ V2Link \/ V2Return

SpecCore == InitCore /\ [][NextCore]_vars

\* C14: with fewer than 2 pages cluster_pages raises ClusteringError with no
\* embedding computed and no k tried, and the v2 plan_semantic_links raises
\* LinkPlanningError with nothing grouped and nothing emitted.
C14_TooFewPages ==
    Len(pages) < 2 =>
        /\ cpc # "start" =>
              /\ cpc = "raised"
              /\ cluster_error = "Need at least 2 pages to cluster"
              /\ evaluated = <<>>
              /\ min_clusters = 0 /\ max_clusters = 0 /\ n_clusters = 0
              /\ result = <<>>
        /\ pc # "start" =>
              /\ pc = "raised"
              /\ error = "Need at least 2 pages"
              /\ clusters = <<>>
              /\ visited = <<>>
              /\ recommendations = <<>>

\* Both functions were called on a one-page list and both are over.
C14_Witness ==
    /\ Len(pages) = 1
    /\ cpc = "raised"
    /\ pc = "raised"

\* C16: a call with a number of labels different from the number of pages
\* fails loud: the v2 planner raises LinkPlanningError and the v1 grouper
\* builds no clusters; nothing is emitted.
C16_MismatchFailsLoud ==
    (Len(cluster_labels) # Len(pages) /\ pc # "start") =>
        /\ pc = "raised"
        /\ clusters = <<>>
        /\ recommendations = <<>>

\* Whether the anchor engine of the running planner finds an anchor in the
\* source page for the pillar page, whatever the order of the candidates
AnchorAvailable(source, pillar) ==
    IF gen = "v1"
    THEN FirstLinkOf(source.content, pillar.content, nltk_ok) # None
    ELSE \A phrases \in NounPhrasesOf(source.content, nltk_ok) :
            select_best_anchor_v2(phrases, pillar.content) # NoAnchor

\* The members of visit v the loop over the pages does not skip as pillar,
\* utility page or self-link
Sources(v) ==
    {i \in Members(v) : /\ i # visited[v].pillar
                        /\ ~IsUtility(pages[i])
                        /\ pages[i].url # pages[visited[v].pillar].url}

\* C17: a cluster without a pillar and a source without an anchor never
\* abort the run: the planner raises only from its argument checks, a
\* returned run has visited every cluster, and in every linked cluster every
\* source page with an anchor has its link to the pillar, wherever the
\* skipped pages stand in the cluster.
C17_SkipsNeverAbort ==
    /\ pc = "raised" => (visited = <<>> /\ clusters = <<>>)
    /\ pc = "returned" => Len(visited) = Len(clusters)
    /\ \A v \in Visits :
          visited[v].outcome = "linked" =>
             \A i \in Sources(v) :
                AnchorAvailable(pages[i], pages[visited[v].pillar]) =>
                   \E r \in Recs :
                      /\ SourceUrl(recommendations[r]) = pages[i].url
                      /\ TargetUrl(recommendations[r]) = pages[visited[v].pillar].url

\* The run returned after a cluster without a pillar was followed by a
\* linked cluster holding a source page without an anchor.
C17_Witness ==
    /\ pc = "returned"
    /\ \E v, w \in Visits :
          /\ v < w
          /\ visited[v].outcome = "no_pillar"
          /\ visited[w].outcome = "linked"
          /\ \E i \in Sources(w) :
                ~AnchorAvailable(pages[i], pages[visited[w].pillar])

(***************************************************************************)
(* The anchor functions called on their own, and the planner on the two    *)
(* pages that carry the same texts                                         *)
(***************************************************************************)
\* An Optional anchor as the state keeps it
OrNoAnchor(a) == IF a = None THEN NoAnchor ELSE a

InitAnchor ==
    /\ CrawlerIdle
    /\ RunIdle
    /\ gen \in {"v1", "v2"}
    /\ nltk_ok \in BOOLEAN
    /\ source_text \in AnchorSources
    /\ target_text \in AnchorTargets
    /\ apc = "start" /\ fn = ""
    /\ considered = <<>> /\ returned = NoAnchor
    /\ pages = << [url |-> "/docker-guide", title |-> "Docker Guide",
                   content |-> target_text],
                  [url |-> "/compose", title |-> "Docker Guide",
                   content |-> source_text] >>
    /\ cluster_labels = <<0, 0>>
    /\ pc = "start"
    /\ clusters = <<>>
    /\ ci = 0
    /\ recommendations = <<>>
    /\ source_to_target = [u \in {} |-> {}]
    /\ error = ""
    /\ visited = <<>>
    /\ origin = <<>>
    /\ ClustererIdle

\* v2: select_best_anchor(extract_noun_phrases(source_content), pillar_content)
SelectBestAnchorV2 ==
    /\ gen = "v2" /\ apc = "start"
    /\ \E candidate_phrases \in extract_noun_phrases(source_text, nltk_ok) :
          /\ considered' = candidate_phrases
          /\ returned' = select_best_anchor_v2(candidate_phrases, target_text)
    /\ fn' = "select_best_anchor"
    /\ apc' = "done"
    /\ UNCHANGED <<pages, pvars, cvars, kvars, rvars, source_text, target_text>>

\* v1: select_best_anchor(sentence, target_content)
SelectBestAnchorV1 ==
    /\ gen = "v1" /\ apc = "start"
    /\ considered' = extract_candidate_phrases(Words(source_text), nltk_ok)
    /\ returned' = OrNoAnchor(select_best_anchor(Words(source_text), target_text, nltk_ok))
    /\ fn' = "select_best_anchor"
    /\ apc' = "done"
    /\ UNCHANGED <<pages, pvars, cvars, kvars, rvars, source_text, target_text>>

\* v1: fallback_anchor(sentence)
FallbackAnchorV1 ==
    /\ gen = "v1" /\ apc = "start"
    /\ considered' = extract_candidate_phrases(Words(source_text), nltk_ok)
    /\ returned' = OrNoAnchor(fallback_anchor(Words(source_text), nltk_ok))
    /\ fn' = "fallback_anchor"
    /\ apc' = "done"
    /\ UNCHANGED <<pages, pvars, cvars, kvars, rvars, source_text, target_text>>

NextAnchor ==
    \/ SelectBestAnchorV2 \/ SelectBestAnchorV1 \/ FallbackAnchorV1
    \/ V2Start \/ V2Link \/ V2Return
    \/ V1Build \/ V1Link \/ V1Return

SpecAnchor == InitAnchor /\ [][NextAnchor]_vars

(***************************************************************************)
(* Reading an anchor                                                       *)
(***************************************************************************)
\* The words of a text, lowered, as written and without trailing punctuation
WholeWords(c) ==
    TargetWordsOf(c) \cup {Stem(w) : w \in TargetWordsOf(c)}

\* The number of words of the anchor that appear in the target text
AnchorOverlap(a, c) ==
    Cardinality({i \in 1..Len(a) : Lower(a[i]) \in WholeWords(c)})

\* The overlap_score the running engine gives a candidate phrase
OverlapScore(p) ==
    IF gen = "v1" THEN score_phrase(p, target_text)
    ELSE Overlap(p, TargetWordsOf(target_text))

\* The candidates that pass the overlap threshold
Surviving ==
    {considered[i] : i \in {j \in 1..Len(considered) :
                              OverlapScore(considered[j]) >= min_anchor_overlap}}

SelectDone == apc = "done" /\ fn = "select_best_anchor"

\* C18: select_best_anchor returns an anchor only if the anchor itself has at
\* least min_anchor_overlap words that appear in the target text, and returns
\* None when source and target share no word.
C18_AnchorOverlapsTarget ==
    SelectDone =>
        /\ returned # NoAnchor =>
              AnchorOverlap(returned, target_text) >= min_anchor_overlap
        /\ WholeWords(source_text) \cap WholeWords(target_text) = {} =>
              returned = NoAnchor

\* C19: every anchor an anchor function returns, and every anchor of an
\* emitted recommendation, has min_anchor_words to max_anchor_words words.
C19_AnchorLength ==
    /\ (apc = "done" /\ returned # NoAnchor) =>
          (min_anchor_words <= Len(returned) /\ Len(returned) <= max_anchor_words)
    /\ \A r \in Recs :
          /\ min_anchor_words <= Len(recommendations[r].anchor)
          /\ Len(recommendations[r].anchor) <= max_anchor_words

\* An anchor was returned for a source of six capitalized words in a row, or
\* of six nouns in a row, and the planner emitted a recommendation for the
\* same two texts.
C19_Witness ==
    /\ apc = "done" /\ returned # NoAnchor
    /\ source_text \in {sCaps, sSix}
    /\ pc = "returned" /\ Recs # {}

\* C20: the anchor select_best_anchor returns has the highest overlap_score
\* among the surviving candidates, and the greatest phrase length among
\* those with that score.
C20_HighestOverlapFirst ==
    (SelectDone /\ returned # NoAnchor) =>
        \A p \in Surviving :
            \/ OverlapScore(p) < OverlapScore(returned)
            \/ /\ OverlapScore(p) = OverlapScore(returned)
               /\ PhraseLen(p) <= PhraseLen(returned)

(***************************************************************************)
(* Reading a recommendation against its pillar                             *)
(***************************************************************************)
\* The candidate phrases of a source page that pass the overlap scoring of
\* the running planner against the pillar content
PassingCandidates(source, pillar) ==
    IF gen = "v1"
    THEN LET ss == Sentences(source.content)
         IN  UNION { { p \in {extract_candidate_phrases(ss[k], nltk_ok)[i] :
                               i \in 1..Len(extract_candidate_phrases(ss[k], nltk_ok))} :
                         score_phrase(p, pillar.content) >= 2 }
                     : k \in 1..Len(ss) }
    ELSE IF WordCount(pillar.content) = 0 THEN {}
    ELSE UNION { { phs[i] : i \in {j \in 1..Len(phs) :
                                     Overlap(phs[j], TargetWordsOf(pillar.content))
                                         >= min_anchor_overlap} }
                 : phs \in NounPhrasesOf(source.content, nltk_ok) }

\* C21: every emitted recommendation carries an anchor that passed the
\* overlap scoring against its pillar's content (the anchor is a passing
\* candidate of its source, as extracted or cleaned); a source none of whose
\* candidates passes yields no recommendation.
C21_AnchorPassedScoring ==
    \A r \in Recs :
        \E p \in PassingCandidates(pages[origin[r].source], pages[origin[r].pillar]) :
            \/ recommendations[r].anchor = p
            \/ recommendations[r].anchor = OrNoAnchor(clean_anchor(p))

\* C22: a cluster of at least 2 pages is left without a pillar only if every
\* page in it is a utility page; one non-utility page, whatever the length
\* of its content, is enough for a pillar to be chosen.
C22_PillarUnlessAllUtility ==
    \A v \in Visits :
        (Len(visited[v].members) >= 2
            /\ \E i \in Members(v) : ~IsUtility(pages[i])) =>
              /\ visited[v].outcome = "linked"
              /\ visited[v].pillar \in Members(v)
              /\ ~IsUtility(pages[visited[v].pillar])

\* The candidates that survive the stop-word cleaning of the running engine
\* (v2 does not clean) and meet the minimum overlap
SurvivingBoth ==
    {p \in Surviving : gen = "v1" => clean_anchor(p) # None}

\* C23: select_best_anchor returns an anchor whenever a candidate survives
\* both the stop-word cleaning and the overlap threshold, and returns None
\* only if no candidate survives both.
C23_AnchorWheneverPossible ==
    SelectDone => (returned = NoAnchor <=> SurvivingBoth = {})

\* The phrase holds a stop word, in whatever case it is written
HasStopword(a) == \E i \in 1..Len(a) : Lower(a[i]) \in STOPWORDS

\* C24: no anchor an anchor function returns, and no anchor of an emitted
\* recommendation, contains a word of the stop-word set.
C24_NoStopwordInAnchor ==
    /\ apc = "done" => ~HasStopword(returned)
    /\ \A r \in Recs : ~HasStopword(recommendations[r].anchor)

\* re.findall(r"\b[a-zA-Z]{3,}\b", sentence.lower()): the alphabetic words of
\* 3 letters or more of the sentence
AlphabeticWords(sentence) ==
    LET alpha == SelectSeq(LowerAll(sentence), Alpha3)
    IN  [k \in 1..Len(alpha) |-> Stem(alpha[k])]

\* The windows of lo..hi contiguous words that fit in the word sequence
FittingWindows(words, lo, hi) ==
    UNION { {SubSeq(words, i, i + n - 1) : n \in {m \in lo..hi : i + m - 1 <= Len(words)}}
            : i \in 1..Len(words) }

\* C25: when the tagger fails, the candidates of extract_candidate_phrases
\* are exactly the windows of MIN_ANCHOR_WORDS to MAX_ANCHOR_WORDS contiguous
\* alphabetic words that fit in the sentence.
C25_AllWindowsAreCandidates ==
    (apc = "done" /\ gen = "v1" /\ ~nltk_ok) =>
        {considered[i] : i \in 1..Len(considered)}
            = FittingWindows(AlphabeticWords(Words(source_text)),
                             MIN_ANCHOR_WORDS, MAX_ANCHOR_WORDS)

(***************************************************************************)
(* Properties of the grouping and of the order of the plan                 *)
(***************************************************************************)
Grouped == pc \in {"loop", "returned"}

\* The groups that hold page i
GroupsOf(i) ==
    {k \in 1..Len(clusters) :
        \E m \in 1..Len(clusters[k].members) : clusters[k].members[m] = i}

\* C26: grouping by label is a partition of the pages: every page is in
\* exactly one group, the group keyed by its label, and the members of each
\* group are pages in ascending index order.
C26_GroupingIsPartition ==
    Grouped =>
        /\ \A i \in 1..Len(pages) :
              /\ Cardinality(GroupsOf(i)) = 1
              /\ \A k \in GroupsOf(i) : clusters[k].label = cluster_labels[i]
        /\ \A k \in 1..Len(clusters) :
              /\ \A m \in 1..Len(clusters[k].members) :
                    clusters[k].members[m] \in 1..Len(pages)
              /\ \A m \in 1..(Len(clusters[k].members) - 1) :
                    clusters[k].members[m] < clusters[k].members[m + 1]
              /\ \A j \in 1..Len(clusters) : j # k => clusters[j].label # clusters[k].label

\* The position at which a label first appears in the label sequence
FirstIndex(label) ==
    CHOOSE i \in 1..Len(cluster_labels) :
        /\ cluster_labels[i] = label
        /\ \A j \in 1..(i - 1) : cluster_labels[j] # label

\* The cluster visit that emitted recommendation r
VisitOf(r) == CHOOSE v \in Visits : origin[r].source \in Members(v)

\* C27: recommendations are appended and never re-sorted; clusters are
\* visited in order of the first appearance of their label, and within a
\* cluster the sources in ascending page index, so the list is in
\* cluster-then-member order.
C27_TraversalOrder ==
    /\ [][/\ Len(recommendations') >= Len(recommendations)
          /\ SubSeq(recommendations', 1, Len(recommendations)) = recommendations]_vars
    /\ [](\A v, w \in Visits :
             v < w => FirstIndex(visited[v].label) < FirstIndex(visited[w].label))
    /\ [](\A r, q \in Recs :
             r < q => \/ VisitOf(r) < VisitOf(q)
                      \/ /\ VisitOf(r) = VisitOf(q)
                         /\ origin[r].source < origin[q].source)

\* The run returned two recommendations from two clusters, the first from
\* the cluster with the greater label and from the page with the greater
\* index.
C27_Witness ==
    /\ pc = "returned"
    /\ \E r, q \in Recs :
          /\ r < q
          /\ VisitOf(r) < VisitOf(q)
          /\ visited[VisitOf(r)].label > visited[VisitOf(q)].label
          /\ origin[r].source > origin[q].source

(***************************************************************************)
(* url_utils.normalize_url and urllib.parse on the URLs of one site        *)
(***************************************************************************)
\* Largest page ceiling a crawl is started with
MaxCrawl == 3

\* normalize_url(url): scheme, netloc and the path without trailing slashes,
\* "/" for the empty path
normalize_url(url) ==
    CASE url = "https://a.com"       -> "https://a.com/"
      [] url = "https://a.com/blog/" -> "https://a.com/blog"
      [] OTHER                       -> url

\* urlparse(url).netloc
netloc(url) ==
    CASE url \in {"https://a.com", "https://a.com/", "https://a.com/blog",
                  "https://a.com/blog/"} -> "a.com"
      [] url = "https://b.org/"          -> "b.org"
      [] OTHER                           -> ""

\* validate_url(url): an http(s) scheme and a netloc
validate_url(url) == netloc(url) # ""

\* urljoin(url, href) raises ValueError (an unclosed bracket in the netloc)
JoinRaises(href) == href = "http://[bad"

\* urljoin(url, href) for a url of the site and a root-relative or absolute href
urljoin(url, href) ==
    CASE href = "/"      -> "https://a.com/"
      [] href = "/blog"  -> "https://a.com/blog"
      [] href = "/blog/" -> "https://a.com/blog/"
      [] OTHER           -> href

\* The document a URL of the site names
Resource(url) ==
    CASE url \in {"https://a.com", "https://a.com/"}           -> "home"
      [] url \in {"https://a.com/blog", "https://a.com/blog/"} -> "blog"
      [] OTHER                                                 -> "none"

Resources == {"home", "blog"}

\* The a[href] lists of a document
HrefLists ==
    { <<>>, <<"/">>, <<"/blog/">>, <<"/", "/blog">>,
      <<"/blog", "https://b.org/", "/">>, <<"http://[bad">>,
      <<"/blog", "http://[bad", "/">> }

\* What requests.get does for a document: it returns it, raises Timeout, or
\* returns an error status
Statuses == {"ok", "timeout", "http_error"}

StartUrls == {"https://a.com", "https://a.com/", "https://a.com/blog/", "a.com"}

(***************************************************************************)
(* crawler.crawl_pages (v1) and crawler_v2.crawl_pages (v2)                *)
(***************************************************************************)
InitCrawl ==
    /\ gen \in {"v1", "v2"}
    /\ site \in StartUrls
    /\ limit \in 1..MaxCrawl
    /\ web \in [Resources -> [status : Statuses, hrefs : HrefLists]]
    /\ kpc = "start"
    /\ crawl_visited = {}
    /\ crawl_result = CrawlResult
    /\ stack = <<>>
    /\ fetched = <<>>
    /\ nltk_ok = TRUE
    /\ pages = <<>>
    /\ cluster_labels = <<>>
    /\ pc = "idle"
    /\ clusters = <<>>
    /\ ci = 0
    /\ recommendations = <<>>
    /\ source_to_target = [u \in {} |-> {}]
    /\ error = ""
    /\ visited = <<>>
    /\ origin = <<>>
    /\ ClustererIdle
    /\ AnchorIdle
    /\ RunIdle

\* A call crawl_recursive(url) that has not yet run its first statement
Call(url) == [url |-> url, entered |-> FALSE, todo |-> <<>>]

Pop(st) == SubSeq(st, 1, Len(st) - 1)

\* The except clauses of crawl_recursive: v2 records the error and counts a
\* failure, v1 passes
Failed(res, msg, url) ==
    IF gen = "v1" THEN res
    ELSE [res EXCEPT !.errors = Append(@, [msg |-> msg, url |-> url]),
                     !.total_failed = @ + 1]

\* v2: validate_url(site), then crawl_recursive(site); v1: crawl(site)
CrawlStart ==
    /\ kpc = "start"
    /\ IF gen = "v2" /\ ~validate_url(site)
       THEN kpc' = "raised" /\ UNCHANGED stack
       ELSE kpc' = "crawling" /\ stack' = <<Call(site)>>
    /\ UNCHANGED <<pages, pvars, cvars, avars, rvars>>
    /\ UNCHANGED <<site, limit, web, crawl_visited, crawl_result, fetched>>

\* The start of a call: the visited / limit test, then the request
CrawlEnter ==
    /\ kpc = "crawling" /\ stack # <<>>
    /\ ~stack[Len(stack)].entered
    /\ LET url == stack[Len(stack)].url
           doc == IF Resource(url) = "none"
                  THEN [status |-> "timeout", hrefs |-> <<>>]
                  ELSE web[Resource(url)]
           got == \/ doc.status = "ok"
                  \/ gen = "v1" /\ doc.status = "http_error"
           attempted == IF gen = "v1" THEN crawl_result
                        ELSE [crawl_result EXCEPT !.total_attempted = @ + 1]
       IN  IF url \in crawl_visited \/ Cardinality(crawl_visited) >= limit
           THEN /\ stack' = Pop(stack)
                /\ UNCHANGED <<crawl_visited, crawl_result, fetched>>
           ELSE /\ crawl_visited' = crawl_visited \cup {url}
                /\ fetched' = Append(fetched, url)
                /\ IF got
                   THEN /\ crawl_result' =
                              [attempted EXCEPT
                                 !.pages = Append(@, [url |-> url]),
                                 !.total_success =
                                     IF gen = "v1" THEN @ ELSE @ + 1]
                        /\ stack' = [stack EXCEPT ![Len(stack)] =
                                        [url |-> url, entered |-> TRUE,
                                         todo |-> doc.hrefs]]
                   ELSE /\ crawl_result' =
                              Failed(attempted,
                                     IF doc.status = "timeout"
                                     THEN "Timeout crawling"
                                     ELSE "Request failed for", url)
                        /\ stack' = Pop(stack)
    /\ UNCHANGED <<pages, pvars, cvars, avars, rvars>>
    /\ UNCHANGED <<site, limit, web, kpc>>

\* One iteration of `for a in soup.select("a[href]")`
CrawlLink ==
    /\ kpc = "crawling" /\ stack # <<>>
    /\ stack[Len(stack)].entered
    /\ stack[Len(stack)].todo # <<>>
    /\ LET frame == stack[Len(stack)]
           href  == Head(frame.todo)
           link  == normalize_url(urljoin(frame.url, href))
           rest  == [stack EXCEPT ![Len(stack)].todo = Tail(@)]
       IN  IF JoinRaises(href)
           THEN /\ crawl_result' =
                      Failed(crawl_result, "Unexpected error crawling", frame.url)
                /\ stack' = Pop(stack)
           ELSE /\ UNCHANGED crawl_result
                /\ stack' = IF netloc(link) = netloc(site)
                            THEN Append(rest, Call(link))
                            ELSE rest
    /\ UNCHANGED <<pages, pvars, cvars, avars, rvars>>
    /\ UNCHANGED <<site, limit, web, kpc, crawl_visited, fetched>>

\* The loop over the links is over: the call returns
CrawlReturn ==
    /\ kpc = "crawling" /\ stack # <<>>
    /\ stack[Len(stack)].entered
    /\ stack[Len(stack)].todo = <<>>
    /\ stack' = Pop(stack)
    /\ UNCHANGED <<pages, pvars, cvars, avars, rvars>>
    /\ UNCHANGED <<site, limit, web, kpc, crawl_visited, crawl_result, fetched>>

\* return result (v1: return pages)
CrawlFinish ==
    /\ kpc = "crawling" /\ stack = <<>>
    /\ kpc' = "returned"
    /\ UNCHANGED <<pages, pvars, cvars, avars, rvars>>
    /\ UNCHANGED <<site, limit, web, crawl_visited, crawl_result, stack, fetched>>

NextCrawl ==
    \/ CrawlStart \/ CrawlEnter \/ CrawlLink \/ CrawlReturn \/ CrawlFinish

SpecCrawl == InitCrawl /\ [][NextCrawl]_vars

(***************************************************************************)
(* Properties of the crawl                                                 *)
(***************************************************************************)
\* C28: the crawl result holds at most one page per normalized URL, and no
\* normalized URL is requested twice.
C28_OnePagePerNormalizedUrl ==
    /\ \A i, j \in 1..Len(crawl_result.pages) :
          i # j => normalize_url(crawl_result.pages[i].url)
                      # normalize_url(crawl_result.pages[j].url)
    /\ \A i, j \in 1..Len(fetched) :
          i # j => normalize_url(fetched[i]) # normalize_url(fetched[j])

\* C30: when the v2 crawl returns, every attempted URL is counted once, as a
\* success or as a failure, and the pages are the successes.
C30_CountersAddUp ==
    (gen = "v2" /\ kpc = "returned") =>
        /\ crawl_result.total_attempted
              = crawl_result.total_success + crawl_result.total_failed
        /\ Len(crawl_result.pages) = crawl_result.total_success

(***************************************************************************)
(* run_agent.run: validate, crawl, extract, cluster, plan, write           *)
(***************************************************************************)
\* CrawlerConfig.max_pages, the ceiling crawl_pages(site) falls back to
max_pages == 100

\* validate_input(site): a non-empty string that starts with http:// or
\* https://
validate_input(s) ==
    s \in {"https://", "https://a.com", "https://a.com/", "https://a.com/blog",
           "https://a.com/blog/", "https://b.org/"}

\* The sites run() is called with
RunSites == StartUrls \cup {"", "https://"}

\* str(e) of the AgentError a step ends the run with
StageError(stage) ==
    CASE stage = "validate" -> "Site URL must be a non-empty string that starts with http:// or https://"
      [] stage = "crawl"    -> "Crawling failed or crawled fewer than 2 pages"
      [] stage = "extract"  -> "Fewer than 2 usable pages"
      [] stage = "cluster"  -> "Clustering failed"
      [] stage = "plan"     -> "Link planning failed"
      [] OTHER              -> ""

\* Variant: the handler returns the result without recording the error
Swallow(res, stage) == res

\* except AgentError as e: result.errors.append(str(e)); return result
Handle(res, stage) == [res EXCEPT !.errors = Append(@, StageError(stage))]

\* The page dict of a crawled url once page["content"] is set
PageOf(url) ==
    [url     |-> url,
     title   |-> "Docker Guide",
     content |-> IF Resource(url) = "home" THEN cLong ELSE cSrc]

\* extract_content(page["html"]) returns a text
Usable(page) == Resource(page.url) \in extractable

\* The v2 plan_semantic_links from the grouping on: the loop over the
\* clusters as one call, the set of plans it can return
RECURSIVE PlanClusters(_, _, _, _, _)
PlanClusters(ps, tagger_ok, cls, k, acc) ==
    IF k > Len(cls) THEN {acc}
    ELSE LET page_indices == cls[k].members
             pillar_idx   == find_pillar_v2(ps, page_indices)
         IN  IF TooSmall(page_indices) \/ pillar_idx = 0
             THEN PlanClusters(ps, tagger_ok, cls, k + 1, acc)
             ELSE UNION { PlanClusters(ps, tagger_ok, cls, k + 1, nxt) :
                          nxt \in V2LinkLoop(ps, tagger_ok, pillar_idx,
                                             page_indices, 1, acc) }

\* The lists plan_semantic_links(pages, labels) can return
Plans(ps, tagger_ok, labels) ==
    { out.recs :
        out \in PlanClusters(ps, tagger_ok, GroupByLabel(labels, Len(labels)), 1,
                             [recs   |-> <<>>,
                              s2t    |-> [u \in {} |-> {}],
                              origin |-> <<>>]) }

InitRun ==
    /\ gen = "v2"
    /\ nltk_ok \in BOOLEAN
    /\ pages = <<>>
    /\ cluster_labels = <<>>
    /\ pc = "idle"
    /\ clusters = <<>>
    /\ ci = 0
    /\ recommendations = <<>>
    /\ source_to_target = [u \in {} |-> {}]
    /\ error = ""
    /\ visited = <<>>
    /\ origin = <<>>
    /\ clustering = ClusteringConfig(2, MaxClusters, min_silhouette_score)
    /\ encode_ok \in BOOLEAN
    /\ cpc = "idle"
    /\ min_clusters = 0 /\ max_clusters = 0 /\ n_clusters = 0
    /\ best_score = 0 /\ best_labels = <<>> /\ best_n = 0
    /\ result = <<>>
    /\ cluster_error = ""
    /\ warnings = <<>>
    /\ sklearn = [k \in 2..MaxPages |-> [raised |-> "", score |-> 50]]
    /\ evaluated = <<>>
    /\ AnchorIdle
    /\ site \in RunSites
    /\ limit = max_pages
    /\ web \in [Resources -> [status : Statuses, hrefs : HrefLists]]
    /\ kpc = "idle"
    /\ crawl_visited = {}
    /\ crawl_result = CrawlResult
    /\ stack = <<>>
    /\ fetched = <<>>
    /\ rpc = "start"
    /\ extractable \in SUBSET Resources
    /\ output_ok \in BOOLEAN
    /\ agent = AgentResult
    /\ stages = <<>>

\* Lines 137-149: validate_input(site), then the call crawl_pages(site)
RunStart ==
    /\ rpc = "start"
    /\ IF ~validate_input(site)
       THEN /\ agent' = Handle(agent, "validate")
            /\ rpc' = "returned"
            /\ stages' = <<"validate">>
            /\ UNCHANGED kpc
       ELSE /\ rpc' = "crawl"
            /\ kpc' = "start"
            /\ stages' = <<"validate", "crawl">>
            /\ UNCHANGED agent
    /\ UNCHANGED <<pages, pvars, cvars, avars, extractable, output_ok>>
    /\ UNCHANGED <<site, limit, web, crawl_visited, crawl_result, stack, fetched>>

\* Lines 150-160: crawl_pages has returned or raised CrawlerError
RunCrawled ==
    /\ rpc = "crawl" /\ kpc \in {"raised", "returned"}
    /\ IF kpc = "raised"
       THEN /\ agent' = Handle(agent, "crawl")
            /\ rpc' = "returned"
            /\ UNCHANGED stages
       ELSE LET counted == [agent EXCEPT
                               !.total_pages = crawl_result.total_success]
            IN  IF counted.total_pages < 2
                THEN /\ agent' = Handle(counted, "crawl")
                     /\ rpc' = "returned"
                     /\ UNCHANGED stages
                ELSE /\ agent' = counted
                     /\ rpc' = "extract"
                     /\ stages' = Append(stages, "extract")
    /\ UNCHANGED <<pages, pvars, cvars, avars, kvars, extractable, output_ok>>

\* Lines 162-197: the loop over the crawled pages, the count of the usable
\* ones, then the call cluster_pages(contents)
RunExtract ==
    /\ rpc = "extract"
    /\ LET crawled    == crawl_result.pages
           pages_data == SelectSeq(crawled, Usable)
           failures   == SelectSeq(crawled, LAMBDA p : ~Usable(p))
           extracted  ==
               [agent EXCEPT
                  !.usable_pages = Len(pages_data),
                  !.errors = @ \o [i \in 1..Len(failures) |->
                                      "No content extracted from HTML"]]
       IN  IF extracted.usable_pages < 2
           THEN /\ agent' = Handle(extracted, "extract")
                /\ rpc' = "returned"
                /\ UNCHANGED <<pages, cpc, stages>>
           ELSE /\ agent' = extracted
                /\ pages' = [i \in 1..Len(pages_data) |-> PageOf(pages_data[i].url)]
                /\ cpc' = "start"
                /\ rpc' = "cluster"
                /\ stages' = Append(stages, "cluster")
    /\ UNCHANGED <<pvars, avars, kvars, extractable, output_ok>>
    /\ UNCHANGED <<clustering, encode_ok, min_clusters, max_clusters, n_clusters,
                   best_score, best_labels, best_n, result, cluster_error,
                   warnings, sklearn, evaluated>>

\* Lines 198-292: cluster_pages has returned or raised; on a return the link
\* planning, the output files and result.success = True
RunClustered ==
    /\ rpc = "cluster" /\ cpc \in {"raised", "returned"}
    /\ rpc' = "returned"
    /\ IF cpc = "raised"
       THEN /\ agent' = Handle(agent, "cluster")
            /\ UNCHANGED stages
       ELSE IF TooFewPages(pages) \/ Len(result[1]) # Len(pages)
       THEN /\ agent' = Handle(agent, "plan")
            /\ stages' = Append(stages, "plan")
       ELSE /\ \E recs \in Plans(pages, nltk_ok, result[1]) :
                 agent' = [agent EXCEPT
                              !.recommendations = recs,
                              !.errors = IF output_ok THEN @
                                         ELSE Append(@, "Output generation error"),
                              !.success = TRUE]
            /\ stages' = stages \o <<"plan", "output">>
    /\ UNCHANGED <<pages, pvars, cvars, avars, kvars, extractable, output_ok>>

\* run() with the calls it makes: crawl_pages and cluster_pages
NextRun ==
    \/ RunStart \/ RunCrawled \/ RunExtract \/ RunClustered
    \/ CrawlStart \/ CrawlEnter \/ CrawlLink \/ CrawlReturn \/ CrawlFinish
    \/ ClusterStart \/ ClusterEvaluate \/ ClusterFinish

SpecRun == InitRun /\ [][NextRun]_vars

(***************************************************************************)
(* Properties of the run                                                   *)
(***************************************************************************)
\* The first step of the pipeline that did not complete, "" if all did
FailedStage ==
    IF ~validate_input(site) THEN "validate"
    ELSE IF kpc = "raised" \/ crawl_result.total_success < 2 THEN "crawl"
    ELSE IF Len(SelectSeq(crawl_result.pages, Usable)) < 2 THEN "extract"
    ELSE IF cpc = "raised" THEN "cluster"
    ELSE IF "plan" \in {stages[i] : i \in 1..Len(stages)}
            /\ "output" \notin {stages[i] : i \in 1..Len(stages)} THEN "plan"
    ELSE ""

\* The steps run() enters when the pipeline fails at the given step
StagesUpTo(stage) ==
    CASE stage = "validate" -> <<"validate">>
      [] stage = "crawl"    -> <<"validate", "crawl">>
      [] stage = "extract"  -> <<"validate", "crawl", "extract">>
      [] stage = "cluster"  -> <<"validate", "crawl", "extract", "cluster">>
      [] stage = "plan"     -> <<"validate", "crawl", "extract", "cluster", "plan">>
      [] OTHER              -> <<"validate", "crawl", "extract", "cluster", "plan",
                                 "output">>

====
